---- MODULE Spec2Model ----
(***************************************************************************)
(* Model of the movie recommender core:                                    *)
(*   src/models/content_based_recommendation.py  (content model, lookup,   *)
(*                                                 search)                 *)
(*   src/models/popularity.py                    (popularity ranking)      *)
(*   src/utils/data_loader.py                    (catalog singleton)       *)
(* Rows are numbered from 1 here; pandas numbers them from 0.              *)
(***************************************************************************)
EXTENDS Integers, Sequences, FiniteSets, TLC

\* ---------------------------------------------------------------- bounds
NumThreads == 2      \* concurrent callers of the content module
MaxCalls == 2        \* calls issued in one behaviour of Spec
MaxRows == 3         \* catalog rows
MaxK == 3            \* num_recommendations / limit
MaxTitleLen == 2     \* characters in a title
MaxQueryLen == 1     \* characters in a query
MaxVotes == 2        \* largest vote_count
PercentileSteps == 4 \* percentiles are 0/4, 1/4, ..., 4/4

\* ---------------------------------------------------------------- values
\* A title is a sequence of characters; pandas reads an empty cell as NaN,
\* so the empty sequence stands for an absent title.
NaN == << >>

TitleChars == {"a", "A", "b"}
\* "." is a regex metacharacter, "(" alone is an invalid pattern.
QueryChars == {"a", "A", "b", ".", "("}

RECURSIVE Strings(_, _)
Strings(chars, n) ==
    IF n = 0 THEN {<< >>}
    ELSE LET shorter == Strings(chars, n - 1)
         IN  shorter \cup {Append(s, c) : s \in {x \in shorter : Len(x) = n - 1}, c \in chars}

Titles == Strings(TitleChars, MaxTitleLen)
Queries == Strings(QueryChars, MaxQueryLen)

\* Similarity scores in units of 1e-5; One is the score 1.0. The two scores in
\* between differ, and both are 0.1235 once rounded to 4 decimal places.
One == 100000
MidScores == {12346, 12354}

Threads == 1..NumThreads

VARIABLES
    movies,             \* data_loader._movies: the catalog table, in row order
    kernel,             \* what linear_kernel returns for this catalog's TF-IDF matrix
    tfidf_vectorizer,   \* _tfidf_vectorizer: 0 is None, else the call that assigned it
    tfidf_matrix,       \* _tfidf_matrix: 0 is None, else the call that assigned it
    similarity_matrix,  \* _similarity_matrix: [by, of, m]; by = 0 is None
    pc,                 \* per thread: the line the thread is at
    via,                \* per thread: the entry point of the call in progress
    call,               \* per thread: the number of the call in progress
    ncalls,             \* calls issued so far
    built,              \* calls that completed a build (fit_transform and linear_kernel)
    outcome             \* the last finished call: its arguments, what it returned or raised

vars == <<movies, kernel, tfidf_vectorizer, tfidf_matrix, similarity_matrix,
          pc, via, call, ncalls, built, outcome>>

model == <<tfidf_vectorizer, tfidf_matrix, similarity_matrix>>

NoMatrix == [by |-> 0, of |-> 0, m |-> << >>]

Row(t, vc, va) == [title |-> t, vote_count |-> vc, vote_average |-> va]

\* ------------------------------------------------------- the catalog table
Rows(mv) == 1..Len(mv)

\* The rows of mv at the positions idx, in that order (DataFrame.loc[idx]).
RowsOf(mv, idx) == [p \in 1..Len(idx) |-> mv[idx[p]]]

Min(S) == CHOOSE x \in S : \A y \in S : x <= y

\* str.lower() on one character
Lower(c) == IF c = "A" THEN "a" ELSE c

\* str.lower() on a string
LowerStr(s) == [i \in 1..Len(s) |-> Lower(s[i])]

\* movies["title"].str.lower() == movie_title.lower(): NaN compares unequal
ExactMatches(mv, q) ==
    {i \in Rows(mv) : mv[i].title # NaN /\ LowerStr(mv[i].title) = LowerStr(q)}

\* re.compile(pat, re.IGNORECASE) succeeds: an unbalanced "(" is re.error
PatternValid(q) == \A i \in 1..Len(q) : q[i] # "("

\* regex.search(title) for a pattern of literals and ".", ignoring case
RegexSearch(p, t) ==
    \E o \in 0..(Len(t) - Len(p)) :
        \A i \in 1..Len(p) : p[i] = "." \/ Lower(p[i]) = Lower(t[o + i])

\* movies["title"].str.contains(q, case=False, na=False): regex=True is the default
ContainsMatches(mv, q) ==
    {i \in Rows(mv) : mv[i].title # NaN /\ RegexSearch(q, mv[i].title)}

\* ------------------------------------------------------ similarity matrix
Pairs(n) == {p \in (1..n) \X (1..n) : p[1] < p[2]}

Scores == {0, One} \cup MidScores

KernelOf(n, Z, u) ==
    [i \in 1..n |-> [j \in 1..n |->
        IF i = j THEN (IF i \in Z THEN 0 ELSE One)
        ELSE IF i < j THEN u[<<i, j>>] ELSE u[<<j, i>>]]]

\* The matrices linear_kernel can return for n unit-or-zero TF-IDF rows:
\* symmetric, a zero row (a document of stop words only) scores 0 against
\* every row, a score of 1.0 only between identical rows, and not every row
\* zero (fit_transform raises on an empty vocabulary).
Uppers(n, Z) ==
    {f \in [Pairs(n) -> Scores] :
        /\ \A p \in Pairs(n) : (p[1] \in Z \/ p[2] \in Z) => f[p] = 0
        /\ \A p \in Pairs(n) : f[p] = One =>
              \A l \in (1..n) \ {p[1], p[2]} :
                  f[IF l < p[1] THEN <<l, p[1]>> ELSE <<p[1], l>>]
                = f[IF l < p[2] THEN <<l, p[2]>> ELSE <<p[2], l>>]}

Kernels(n) ==
    UNION {{KernelOf(n, Z, u) : u \in Uppers(n, Z)} : Z \in (SUBSET (1..n)) \ {1..n}}

\* ---------------------------------------------------- get_similar_movies
\* sorted(scores, key=score, reverse=True): stable, so equal scores keep
\* ascending row order. The result is the sequence of row numbers.
Rank_TiesReversed(s, j) ==
    Cardinality({l \in 1..Len(s) : s[l] > s[j] \/ (s[l] = s[j] /\ l > j)}) + 1

Rank(s, j) ==
    Cardinality({l \in 1..Len(s) : s[l] > s[j] \/ (s[l] = s[j] /\ l < j)}) + 1

SortedDesc(s) == [p \in 1..Len(s) |-> CHOOSE j \in 1..Len(s) : Rank(s, j) = p]

\* round(float(score), 4): from units of 1e-5 to units of 1e-4
Round4(x) == (x + 5) \div 10

\* What a finished call returned or raised; call, q, n and p say which call it
\* was and with which arguments (filled in by the action that makes the call);
\* m and qualified are the threshold and the filtered row count of popularity,
\* mean the rounded mean of vote_average that get_popularity_stats reports.
Result(op, status, row, recs) ==
    [op |-> op, status |-> status, row |-> row, recs |-> recs,
     call |-> 0, q |-> << >>, n |-> 0, p |-> 0, m |-> 0, qualified |-> 0, mean |-> 0]

Raise(op, kind) == Result(op, kind, 0, << >>)

\* The outcome o of a call with title or query q and count n.
With(q, n, o) == [o EXCEPT !.q = q, !.n = n]

\* Lines 179-222: the recommendations for the resolved row idx.
Recommend(mv, sim, idx, k) ==
    LET n == Len(mv)
        order == SortedDesc(sim[idx])
        last == IF k + 1 < n THEN k + 1 ELSE n
        similar_movie_indices == SubSeq(order, 2, last)
    IN  IF k + 1 > n
        THEN Raise("similar", "IndexError")    \* scores[i + 1] for i = k - 1
        ELSE Result("similar", "ok", idx,
                    [p \in 1..Len(similar_movie_indices) |->
                        [row |-> similar_movie_indices[p],
                         score |-> Round4(sim[idx][order[p + 1]])]])

\* Lines 154-222 of get_similar_movies, the model being initialized.
SimilarOutcome(mv, sim, q, k) ==
    LET exact == ExactMatches(mv, q)
    IN  IF exact # {} THEN Recommend(mv, sim, Min(exact), k)
        ELSE IF ~PatternValid(q) THEN Raise("similar", "re.error")
        ELSE LET part == ContainsMatches(mv, q)
             IN  IF part = {} THEN Raise("similar", "ValueError")
                 ELSE Recommend(mv, sim, Min(part), k)

\* ----------------------------------------------------------- search_movies
RECURSIVE RowsInOrder(_, _)
RowsInOrder(S, n) ==
    IF n = 0 THEN << >>
    ELSE IF n \in S THEN Append(RowsInOrder(S, n - 1), n) ELSE RowsInOrder(S, n - 1)

\* DataFrame.head(n): the first n rows; for a negative n, all but the last -n
DfHead_ClampNegative(s, n) == SubSeq(s, 1, IF n < Len(s) THEN n ELSE Len(s))

DfHead(s, n) ==
    IF n >= 0 THEN SubSeq(s, 1, IF n < Len(s) THEN n ELSE Len(s))
    ELSE SubSeq(s, 1, Len(s) + n)

SearchOutcome(mv, q, limit) ==
    IF ~PatternValid(q) THEN Raise("search", "re.error")
    ELSE LET matches == DfHead(RowsInOrder(ContainsMatches(mv, q), Len(mv)), limit)
         IN  Result("search", "ok", 0,
                    [p \in 1..Len(matches) |-> [row |-> matches[p], score |-> 0]])

\* ------------------------------------------------------ get_popular_movies
\* sorted values of a column, ascending
AscRank(s, j) ==
    Cardinality({l \in 1..Len(s) : s[l] < s[j] \/ (s[l] = s[j] /\ l < j)}) + 1

SortedAsc(s) == [p \in 1..Len(s) |-> s[CHOOSE j \in 1..Len(s) : AscRank(s, j) = p]]

VoteCounts(mv) == [i \in 1..Len(mv) |-> mv[i].vote_count]

RECURSIVE SumAverage(_, _)
SumAverage(mv, n) == IF n = 0 THEN 0 ELSE SumAverage(mv, n - 1) + mv[n].vote_average

\* Series.quantile(k / PercentileSteps), linear interpolation between the two
\* nearest order statistics; the result is scaled by PercentileSteps.
Quantile_Reversed(xs, k) ==
    LET n == Len(xs)
        v == SortedAsc(xs)
        h == (n - 1) * (PercentileSteps - k)
        lo == h \div PercentileSteps
        r == h % PercentileSteps
    IN  v[lo + 1] * PercentileSteps + (IF r = 0 THEN 0 ELSE r * (v[lo + 2] - v[lo + 1]))

Quantile(xs, k) ==
    LET n == Len(xs)
        v == SortedAsc(xs)
        h == (n - 1) * k
        lo == h \div PercentileSteps
        r == h % PercentileSteps
    IN  v[lo + 1] * PercentileSteps + (IF r = 0 THEN 0 ELSE r * (v[lo + 2] - v[lo + 1]))

\* Line 38: m, scaled by PercentileSteps
Threshold(mv, k) == Quantile(VoteCounts(mv), k)

\* weighted_rating(row, m, C) for a row with vote_count v and vote_average R,
\* where m = mS / PercentileSteps and C = sumR / n (line 39, the mean of
\* vote_average), as the fraction num / den; den = 0 (v = 0 and m = 0) is the
\* float NaN of 0 / 0.
weighted_rating(v, R, mS, sumR, n) ==
    [num |-> v * R * PercentileSteps * n + mS * sumR,
     den |-> n * (v * PercentileSteps + mS)]

\* Lines 38-48 for percentile k / PercentileSteps: the threshold m (scaled),
\* the rows that pass the filter, and the weighted_rating column.
Ranking(mv, k) ==
    LET mS == Threshold(mv, k)
        sumR == SumAverage(mv, Len(mv))
    IN  [m |-> mS,
         qualified |-> {i \in Rows(mv) : mv[i].vote_count * PercentileSteps >= mS},
         rating |-> [i \in Rows(mv) |->
                       weighted_rating(mv[i].vote_count, mv[i].vote_average, mS, sumR, Len(mv))]]

\* Line 42: movies["vote_count"] >= m
Qualified(mv, k) == Ranking(mv, k).qualified

\* a sorts at or before b in sort_values(ascending=False), NaN last
RatedAtLeast(a, b) ==
    IF b.den = 0 THEN TRUE
    ELSE IF a.den = 0 THEN FALSE
    ELSE a.num * b.den >= b.num * a.den

\* Lines 51-54: the qualified rows by descending weighted rating. The default
\* sort kind is quicksort, which fixes no order among equal ratings.
RECURSIVE Orders(_)
Orders(S) ==
    IF S = {} THEN {<< >>}
    ELSE UNION {{<<x>> \o rest : rest \in Orders(S \ {x})} : x \in S}

RankedOrders(rk) ==
    {f \in Orders(rk.qualified) :
        \A a \in 1..(Len(f) - 1) : RatedAtLeast(rk.rating[f[a]], rk.rating[f[a + 1]])}

\* round(float(weighted_rating), 2) in units of 0.01; -1 stands for NaN
Round2(wr) == IF wr.den = 0 THEN -1 ELSE (200 * wr.num + wr.den) \div (2 * wr.den)

\* Lines 54-69: head(n) of the sorted rows, formatted.
PopularOutcome(n, k, rk, order) ==
    LET top_movies == DfHead(order, n)
    IN  [Result("popular", "ok", 0,
                [p \in 1..Len(top_movies) |->
                    [row |-> top_movies[p], score |-> Round2(rk.rating[top_movies[p]])]])
         EXCEPT !.n = n, !.p = k, !.m = rk.m, !.qualified = Cardinality(rk.qualified)]

\* Titles of the catalogs, and the queries, of the similarity lookup.
SimilarTitles == {<<"a">>, <<"b">>}

\* ------------------------------------------------ initialize_content_model
\* A catalog of three records: the first two share vocabulary, the third is
\* unrelated to both.
ExampleMovies == <<Row(<<"a">>, 2, 2), Row(<<"a", "b">>, 1, 1), Row(<<"b">>, 0, 3)>>

ExampleKernel == KernelOf(3, {}, [p \in Pairs(3) |-> IF p = <<1, 2>> THEN 12346 ELSE 0])

Init ==
    /\ movies = ExampleMovies
    /\ kernel = ExampleKernel
    /\ tfidf_vectorizer = 0
    /\ tfidf_matrix = 0
    /\ similarity_matrix = NoMatrix
    /\ pc = [t \in Threads |-> "idle"]
    /\ via = [t \in Threads |-> "none"]
    /\ call = [t \in Threads |-> 0]
    /\ ncalls = 0
    /\ built = {}
    /\ outcome = Raise("none", "none")

Returned(op) == Result(op, "ok", 0, << >>)

\* The outcome o, as the outcome of thread t's call in progress.
By(t, o) == [o EXCEPT !.call = call[t]]

\* Line 64: if _similarity_matrix is not None
AlreadyInitialized_NoGuard == FALSE

AlreadyInitialized == similarity_matrix.by # 0

\* Where initialize_content_model returns to.
AfterInit(t) == IF via[t] = "similar" THEN "s154" ELSE "idle"

\* Thread t's position, entry point and call number once it is at line.
Goto(t, line) ==
    /\ pc' = [pc EXCEPT ![t] = line]
    /\ via' = [via EXCEPT ![t] = IF line = "idle" THEN "none" ELSE via[t]]
    /\ call' = [call EXCEPT ![t] = IF line = "idle" THEN 0 ELSE call[t]]

\* A caller enters initialize_content_model (main.py startup, or any caller).
CallInit(t) ==
    /\ pc[t] = "idle"
    /\ ncalls < MaxCalls
    /\ pc' = [pc EXCEPT ![t] = "i64"]
    /\ via' = [via EXCEPT ![t] = "init"]
    /\ call' = [call EXCEPT ![t] = ncalls + 1]
    /\ ncalls' = ncalls + 1
    /\ UNCHANGED <<movies, kernel, model, built, outcome>>

\* A caller enters get_similar_movies.
CallSimilar(t) ==
    /\ pc[t] = "idle"
    /\ ncalls < MaxCalls
    /\ pc' = [pc EXCEPT ![t] = "s151"]
    /\ via' = [via EXCEPT ![t] = "similar"]
    /\ call' = [call EXCEPT ![t] = ncalls + 1]
    /\ ncalls' = ncalls + 1
    /\ UNCHANGED <<movies, kernel, model, built, outcome>>

\* Lines 151-152: lazy initialization on the first query.
SimilarCheck(t) ==
    /\ pc[t] = "s151"
    /\ Goto(t, IF similarity_matrix.by = 0 THEN "i64" ELSE "s154")
    /\ UNCHANGED <<movies, kernel, model, ncalls, built, outcome>>

\* Lines 64-65: the guard.
InitCheck(t) ==
    /\ pc[t] = "i64"
    /\ IF AlreadyInitialized
       THEN /\ Goto(t, AfterInit(t))
            /\ outcome' = IF via[t] = "init" THEN By(t, Returned("init")) ELSE outcome
       ELSE /\ Goto(t, "i73")
            /\ outcome' = outcome
    /\ UNCHANGED <<movies, kernel, model, ncalls, built>>

\* Lines 69-73: the global vectorizer is assigned before anything is fitted.
InitVectorizer(t) ==
    /\ pc[t] = "i73"
    /\ tfidf_vectorizer' = call[t]
    /\ Goto(t, "i92")
    /\ UNCHANGED <<movies, kernel, tfidf_matrix, similarity_matrix, ncalls, built, outcome>>

\* Line 92: fit_transform raises (empty vocabulary, memory), or its result is
\* assigned to the global matrix.
InitFit(t) ==
    /\ pc[t] = "i92"
    /\ \/ /\ Goto(t, "idle")
          /\ outcome' = By(t, Raise(via[t], "FitError"))
          /\ UNCHANGED tfidf_matrix
       \/ /\ tfidf_matrix' = call[t]
          /\ Goto(t, "i98")
          /\ UNCHANGED outcome
    /\ UNCHANGED <<movies, kernel, tfidf_vectorizer, similarity_matrix, ncalls, built>>

\* Line 98: linear_kernel over the global _tfidf_matrix raises (memory for the
\* dense n x n result), or its result is assigned and the call returns.
InitKernel(t) ==
    /\ pc[t] = "i98"
    /\ \/ /\ Goto(t, "idle")
          /\ outcome' = By(t, Raise(via[t], "FitError"))
          /\ UNCHANGED <<similarity_matrix, built>>
       \/ /\ similarity_matrix' = [by |-> call[t], of |-> tfidf_matrix, m |-> kernel]
          /\ built' = built \cup {call[t]}
          /\ Goto(t, AfterInit(t))
          /\ outcome' = IF via[t] = "init" THEN By(t, Returned("init")) ELSE outcome
    /\ UNCHANGED <<movies, kernel, tfidf_vectorizer, tfidf_matrix, ncalls>>

\* Lines 154-222: resolve the title and read the matrix row.
SimilarTail(t) ==
    /\ pc[t] = "s154"
    /\ \E q \in SimilarTitles, k \in 1..MaxK :
          outcome' = By(t, With(q, k, SimilarOutcome(movies, similarity_matrix.m, q, k)))
    /\ Goto(t, "idle")
    /\ UNCHANGED <<movies, kernel, model, ncalls, built>>

Next ==
    \E t \in Threads :
        \/ CallInit(t)
        \/ CallSimilar(t)
        \/ SimilarCheck(t)
        \/ InitCheck(t)
        \/ InitVectorizer(t)
        \/ InitFit(t)
        \/ InitKernel(t)
        \/ SimilarTail(t)

Spec == Init /\ [][Next]_vars

\* ------------------------------------------------- one caller, whole calls
\* The state once data_loader holds the catalog mv whose kernel is ker.
\* started: main.py's startup_event has run initialize_content_model (as
\* call 1); otherwise the module is used without it and initializes lazily.
Loaded(mv, ker, started) ==
    /\ movies = mv
    /\ kernel = ker
    /\ tfidf_vectorizer = (IF started THEN 1 ELSE 0)
    /\ tfidf_matrix = (IF started THEN 1 ELSE 0)
    /\ similarity_matrix = (IF started THEN [by |-> 1, of |-> 1, m |-> ker] ELSE NoMatrix)
    /\ pc = [t \in Threads |-> "idle"]
    /\ via = [t \in Threads |-> "none"]
    /\ call = [t \in Threads |-> 0]
    /\ ncalls = (IF started THEN 1 ELSE 0)
    /\ built = (IF started THEN {1} ELSE {})
    /\ outcome = Raise("none", "none")

threads == <<pc, via, call>>

\* No call has finished yet. A call reads the catalog and the model, never the
\* previous outcome, and a finished call leaves the state of a catalog loaded
\* with the model built: one call per behaviour reaches every outcome.
Fresh == outcome.op = "none"

\* get_similar_movies(q, k) run to completion by a single caller, lines 150-222.
GetSimilarMovies(q, k) ==
    /\ Fresh
    /\ IF similarity_matrix.by = 0
       THEN /\ tfidf_vectorizer' = ncalls + 1
            /\ tfidf_matrix' = ncalls + 1
            /\ similarity_matrix' = [by |-> ncalls + 1, of |-> ncalls + 1, m |-> kernel]
            /\ built' = built \cup {ncalls + 1}
            /\ ncalls' = ncalls + 1
       ELSE UNCHANGED <<model, built, ncalls>>
    /\ outcome' = With(q, k, SimilarOutcome(movies, similarity_matrix'.m, q, k))
    /\ UNCHANGED <<movies, kernel, threads>>

\* search_movies(q, limit), lines 261-281.
SearchMovies(q, limit) ==
    /\ Fresh
    /\ outcome' = With(q, limit, SearchOutcome(movies, q, limit))
    /\ UNCHANGED <<movies, kernel, model, threads, ncalls, built>>

\* Catalogs for the similarity lookup: any kernel, titles that may repeat.
InitSimilar ==
    \E n \in 1..MaxRows :
        \E ts \in [1..n -> SimilarTitles], ker \in Kernels(n), started \in BOOLEAN :
            Loaded([i \in 1..n |-> Row(ts[i], 0, 0)], ker, started)

NextSimilar == \E q \in SimilarTitles, k \in 1..MaxK : GetSimilarMovies(q, k)

SpecSimilar == InitSimilar /\ [][NextSimilar]_vars

\* Catalogs for title resolution and search: any titles, at least one present,
\* documents with pairwise disjoint vocabularies.
DisjointKernel(n) == KernelOf(n, {}, [p \in Pairs(n) |-> 0])

InitResolve ==
    \E n \in 1..MaxRows :
        \E ts \in [1..n -> Titles], started \in BOOLEAN :
            /\ \E i \in 1..n : ts[i] # NaN
            /\ Loaded([i \in 1..n |-> Row(ts[i], 0, 0)], DisjointKernel(n), started)

NextResolve ==
    \/ \E q \in Queries, k \in 1..MaxK : GetSimilarMovies(q, k)
    \/ \E q \in Queries, limit \in 1..MaxK : SearchMovies(q, limit)

SpecResolve == InitResolve /\ [][NextResolve]_vars

\* get_popular_movies(n, k / PercentileSteps), lines 35-69; order is what
\* sort_values returns.
GetPopularMovies ==
    /\ Fresh
    /\ \E k \in 0..PercentileSteps :
          LET rk == Ranking(movies, k)
          IN  \E order \in RankedOrders(rk), n \in (0 - MaxK)..MaxK :
                  outcome' = PopularOutcome(n, k, rk, order)
    /\ UNCHANGED <<movies, kernel, model, threads, ncalls, built>>

\* Catalogs for the popularity ranking: any vote counts and averages.
VoteAverages == {5, 8}

InitPopular ==
    \E n \in 1..MaxRows :
        \E vc \in [1..n -> 0..MaxVotes], va \in [1..n -> VoteAverages] :
            Loaded([i \in 1..n |-> Row(<<"a">>, vc[i], va[i])], DisjointKernel(n), TRUE)

NextPopular == GetPopularMovies

SpecPopular == InitPopular /\ [][NextPopular]_vars

\* ---------------------------------------------- get_popularity_stats
\* Series.quantile(a / b) as Quantile computes it, the result scaled by b.
QuantileAt(xs, a, b) ==
    LET n == Len(xs)
        v == SortedAsc(xs)
        h == (n - 1) * a
        lo == h \div b
        r == h % b
    IN  v[lo + 1] * b + (IF r = 0 THEN 0 ELSE r * (v[lo + 2] - v[lo + 1]))

\* Lines 79-90: total_movies in n, qualified_movies in qualified, the 0.9
\* quantile of vote_count in m (in tenths) and round(C, 2) in mean (in
\* hundredths).
StatsOutcome(mv) ==
    LET m10 == QuantileAt(VoteCounts(mv), 9, 10)
        sumR == SumAverage(mv, Len(mv))
    IN  [Result("stats", "ok", 0, << >>)
         EXCEPT !.n = Len(mv), !.p = 9, !.m = m10,
                !.qualified = Cardinality({i \in Rows(mv) : mv[i].vote_count * 10 >= m10}),
                !.mean = (200 * sumR + Len(mv)) \div (2 * Len(mv))]

\* ------------------------------------- concurrent callers, model initialized
\* Lines 35 and 42: get_popular_movies filters and extends its own copy of the
\* table (.copy()), so the rows data_loader holds after lines 42-48 are the
\* rows it held before. Without the copies the filter would land in the
\* shared table.
CatalogAfterFilter_InPlace(mv, rk) == RowsOf(mv, RowsInOrder(rk.qualified, Len(mv)))

CatalogAfterFilter(mv, rk) == mv

\* Calls the server takes after the startup call.
ServeCalls == MaxCalls + 1

\* A caller enters operation op, whose first line is line.
Enter(t, op, line) ==
    /\ pc[t] = "idle"
    /\ ncalls < ServeCalls
    /\ pc' = [pc EXCEPT ![t] = line]
    /\ via' = [via EXCEPT ![t] = op]
    /\ call' = [call EXCEPT ![t] = ncalls + 1]
    /\ ncalls' = ncalls + 1
    /\ UNCHANGED <<movies, kernel, model, built, outcome>>

\* Queries of the concurrent callers: titles of the catalog, and a pattern
\* that does not compile.
ServeQueries == SimilarTitles \cup {<<"(">>}

\* search_movies, lines 261-281.
SearchBody(t) ==
    /\ pc[t] = "f261"
    /\ \E q \in ServeQueries, limit \in 1..MaxK :
          outcome' = By(t, With(q, limit, SearchOutcome(movies, q, limit)))
    /\ Goto(t, "idle")
    /\ UNCHANGED <<movies, kernel, model, ncalls, built>>

\* get_popular_movies, lines 35-69.
PopularBody(t) ==
    /\ pc[t] = "p35"
    /\ \E k \in 0..PercentileSteps :
          LET rk == Ranking(movies, k)
          IN  /\ movies' = CatalogAfterFilter(movies, rk)
              /\ \E order \in RankedOrders(rk), n \in (0 - MaxK)..MaxK :
                     outcome' = By(t, PopularOutcome(n, k, rk, order))
    /\ Goto(t, "idle")
    /\ UNCHANGED <<kernel, model, ncalls, built>>

\* get_popularity_stats, lines 79-90.
StatsBody(t) ==
    /\ pc[t] = "t79"
    /\ outcome' = By(t, StatsOutcome(movies))
    /\ Goto(t, "idle")
    /\ UNCHANGED <<movies, kernel, model, ncalls, built>>

\* The server after startup_event: the catalog loaded, the model built.
InitServe == Loaded(ExampleMovies, ExampleKernel, TRUE)

NextServe ==
    \E t \in Threads :
        \/ Enter(t, "similar", "s151")
        \/ SimilarCheck(t)
        \/ SimilarTail(t)
        \/ Enter(t, "search", "f261")
        \/ SearchBody(t)
        \/ Enter(t, "popular", "p35")
        \/ PopularBody(t)
        \/ Enter(t, "stats", "t79")
        \/ StatsBody(t)

SpecServe == InitServe /\ [][NextServe]_vars

\* ================================================================ claims
\* C1: when several callers race on the first get_similar_movies or
\* initialize_content_model, at most one of them performs the build
\* (fit_transform and the similarity matrix): it is executed once per process.
C1_SingleBuild == Cardinality(built) <= 1

\* C2: in every reachable state the three model globals are all absent, or all
\* set by one successful build; a failed initialization leaves none of them set.
ModelAbsent ==
    tfidf_vectorizer = 0 /\ tfidf_matrix = 0 /\ similarity_matrix.by = 0

ModelFromOneBuild ==
    /\ tfidf_vectorizer \in built
    /\ tfidf_matrix = tfidf_vectorizer
    /\ similarity_matrix.by = tfidf_vectorizer
    /\ similarity_matrix.of = tfidf_vectorizer

C2_AllOrNothing == ModelAbsent \/ ModelFromOneBuild

\* C3: once a call of initialize_content_model has completed a build, a call
\* that reaches the guard returns without refitting and without raising, and
\* leaves the vectorizer, the TF-IDF matrix and the similarity matrix as they are.
C3_Idempotent ==
    [][\A t \in Threads :
          (built # {} /\ pc[t] = "i64" /\ pc'[t] # "i64") =>
              /\ pc'[t] = AfterInit(t)
              /\ model' = model
              /\ built' = built
              /\ via[t] = "init" => outcome' = By(t, Returned("init"))
              /\ via[t] = "similar" => outcome' = outcome]_vars

\* A call of initialize_content_model returned normally without having built.
C3_Witness ==
    /\ built # {}
    /\ outcome.op = "init"
    /\ outcome.status = "ok"
    /\ outcome.call \notin built

\* C4: the recommendations of get_similar_movies never contain the resolved
\* query row itself, also when another row ties with the query's self-score.
C4_NeverSelf ==
    (outcome.op = "similar" /\ outcome.status = "ok") =>
        \A p \in 1..Len(outcome.recs) : outcome.recs[p].row # outcome.row

\* Case-insensitive literal containment of q in title t.
IsSubstring(q, t) ==
    \E o \in 0..(Len(t) - Len(q)) : \A i \in 1..Len(q) : Lower(q[i]) = Lower(t[o + i])

LiteralMatches(mv, q) == {i \in Rows(mv) : mv[i].title # NaN /\ IsSubstring(q, mv[i].title)}

Resolvable(mv, q) == ExactMatches(mv, q) # {} \/ LiteralMatches(mv, q) # {}

\* C5: for a resolvable title and k > N-1, get_similar_movies returns
\* successfully with exactly the N-1 other records.
C5_AllOthers ==
    (/\ outcome.op = "similar"
     /\ Resolvable(movies, outcome.q)
     /\ outcome.n > Len(movies) - 1) =>
        /\ outcome.status = "ok"
        /\ Len(outcome.recs) = Len(movies) - 1

\* C6: the resolved record is the first title equal to the query ignoring
\* case, if there is one, and otherwise the first title that contains the
\* query ignoring case; its row is the matrix row that is read.
C6_Resolution ==
    (outcome.op = "similar" /\ outcome.status = "ok") =>
        IF ExactMatches(movies, outcome.q) # {}
        THEN outcome.row = Min(ExactMatches(movies, outcome.q))
        ELSE /\ LiteralMatches(movies, outcome.q) # {}
             /\ outcome.row = Min(LiteralMatches(movies, outcome.q))

\* C7: a query that no title equals or contains fails with ValueError (not
\* found), never with another error and never with a successful result.
C7_NotFound ==
    (outcome.op = "similar" /\ ~Resolvable(movies, outcome.q)) =>
        outcome.status = "ValueError"

\* C8: search_movies returns the first min(limit, M) of the M records, in
\* catalog order, whose present title contains the query literally ignoring
\* case; no match is an empty list, not an error.
C8_Search ==
    outcome.op = "search" =>
        LET expected == DfHead(RowsInOrder(LiteralMatches(movies, outcome.q), Len(movies)),
                               outcome.n)
        IN  /\ outcome.status = "ok"
            /\ Len(outcome.recs) = Len(expected)
            /\ \A p \in 1..Len(expected) : outcome.recs[p].row = expected[p]

\* C9: for a fixed catalog and percentiles p1 <= p2, the threshold satisfies
\* m(p1) <= m(p2) and no more records qualify at p2 than at p1.
C9_Monotone ==
    outcome.op = "popular" =>
        \A p1 \in 0..outcome.p :
            LET lower == Ranking(movies, p1)
            IN  /\ lower.m <= outcome.m
                /\ outcome.qualified <= Cardinality(lower.qualified)

\* A call whose threshold is strictly above, and whose qualified count strictly
\* below, those of a lower percentile.
C9_Witness ==
    /\ outcome.op = "popular"
    /\ \E p1 \in 0..outcome.p :
          LET lower == Ranking(movies, p1)
          IN  /\ lower.m < outcome.m
              /\ outcome.qualified < Cardinality(lower.qualified)

\* C10 as claimed: get_popular_movies called with a negative n returns an
\* empty result.
C10_NegativeEmpty ==
    (outcome.op = "popular" /\ outcome.n < 0) => Len(outcome.recs) = 0

\* C10 as amended: with a negative n the result is the ranked qualified rows
\* without the last -n of them, so it is empty only when -n is at least the
\* number of qualified rows.
C10_NegativeDropsLast ==
    (outcome.op = "popular" /\ outcome.n < 0) =>
        /\ Len(outcome.recs) = (IF outcome.qualified + outcome.n > 0
                                THEN outcome.qualified + outcome.n ELSE 0)
        /\ LET Q == Qualified(movies, outcome.p)
                wr == Ranking(movies, outcome.p).rating
                got == {outcome.recs[p].row : p \in 1..Len(outcome.recs)}
           IN  /\ got \subseteq Q
               /\ Cardinality(got) = Len(outcome.recs)
               /\ \A a \in got, b \in Q \ got : RatedAtLeast(wr[a], wr[b])

\* A negative n that returned records.
C10_Witness ==
    outcome.op = "popular" /\ outcome.n < 0 /\ Len(outcome.recs) > 0

\* C11: with the catalog loaded and the content model initialized, every step
\* of get_similar_movies, search_movies, get_popular_movies and
\* get_popularity_stats, whether the call succeeds or fails and whatever other
\* calls are in progress, leaves the catalog table, its row order and the three
\* model globals as they were.
C11_ReadOnly ==
    [][ModelFromOneBuild => (movies' = movies /\ model' = model /\ built' = built)]_vars

\* A get_popular_movies call that filtered rows out has finished while another
\* caller is inside get_similar_movies, after an earlier call failed or not;
\* the table still has every row.
C11_Witness ==
    /\ ModelFromOneBuild
    /\ outcome.op = "popular"
    /\ outcome.qualified < Len(movies)
    /\ \E t \in Threads : pc[t] = "s154"
    /\ movies = ExampleMovies

\* The matrix score of the resolved query row against the row of the p-th
\* returned record.
MatrixScore(p) == similarity_matrix.m[outcome.row][outcome.recs[p].row]

\* C12 as claimed: the returned similarity_score values are non-increasing,
\* two returned records with equal similarity_score are in ascending row
\* order, and each similarity_score is the matrix score of the query row
\* against that record's row, at the 4 decimal places it is returned with.
C12_OrderedByReturnedScore ==
    (outcome.op = "similar" /\ outcome.status = "ok") =>
        /\ \A a, b \in 1..Len(outcome.recs) :
              a < b =>
                  /\ outcome.recs[a].score >= outcome.recs[b].score
                  /\ outcome.recs[a].score = outcome.recs[b].score =>
                         outcome.recs[a].row < outcome.recs[b].row
        /\ \A a \in 1..Len(outcome.recs) : Round4(MatrixScore(a)) = outcome.recs[a].score

\* C12 as amended: the records are in non-increasing order of their matrix
\* score against the query row, two records with equal matrix scores are in
\* ascending row order, and each similarity_score is that record's matrix
\* score rounded to 4 decimal places (so the returned values are
\* non-increasing too).
C12_OrderedByMatrixScore ==
    (outcome.op = "similar" /\ outcome.status = "ok") =>
        /\ \A a, b \in 1..Len(outcome.recs) :
              a < b =>
                  /\ MatrixScore(a) >= MatrixScore(b)
                  /\ MatrixScore(a) = MatrixScore(b) =>
                         outcome.recs[a].row < outcome.recs[b].row
                  /\ outcome.recs[a].score >= outcome.recs[b].score
        /\ \A a \in 1..Len(outcome.recs) : outcome.recs[a].score = Round4(MatrixScore(a))

\* A successful call returned two records that tie on a matrix score which
\* rounding changes.
C12_Witness ==
    /\ outcome.op = "similar"
    /\ outcome.status = "ok"
    /\ \E a, b \in 1..Len(outcome.recs) :
          /\ a < b
          /\ MatrixScore(a) = MatrixScore(b)
          /\ MatrixScore(a) \in MidScores

====
